---- MODULE Spec2Model ----
(***************************************************************************)
(* EmbeddingMatcher (src/src/main/python/core/embedding_matcher.py):       *)
(* corpus load, embedding index construction, dot-product retrieval and    *)
(* the exam orchestration that drives retrieval per question and option.   *)
(*                                                                         *)
(* Texts are sequences of integer tokens.  The embedding provider is an    *)
(* external service; it is modelled as a deterministic function from a     *)
(* text to a two-dimensional integer vector that returns one vector per    *)
(* input text, and whose calls may fail.                                   *)
(***************************************************************************)
EXTENDS Integers, Sequences, FiniteSets, TLC

VARIABLES
    law_articles,     \* self.law_articles: list of article dicts
    law_embeddings,   \* self.law_embeddings: None or the np.ndarray of rows
    built_from,       \* history: the article list law_embeddings was built from
    ever_loaded,      \* history: some load_law_articles call has returned True
    last_load,        \* history: how the latest load_law_articles call ended
    argsort_ties,     \* how this build's np.argsort orders equal scores
    pinned,           \* history: an earlier match_question call on the current index
    ret,              \* outcome of the last completed call on the matcher
    pc,               \* position of process_exam_questions ("idle" when not running)
    run,              \* locals of the running process_exam_questions
    results,          \* the results dict of the running process_exam_questions
    calls,            \* history: match calls issued by the running process_exam_questions
    threads,          \* callers of one matcher running side by side: position and locals
    repo              \* a DataRepository: its two caches, with the history of its loads

vars == <<law_articles, law_embeddings, built_from, ever_loaded, last_load,
          argsort_ties, pinned, ret, pc, run, results, calls, threads, repo>>

build_vars == <<law_embeddings, built_from, ever_loaded, last_load, argsort_ties>>
index_vars == <<law_articles, build_vars>>
matcher_vars == <<index_vars, pinned>>
exam_vars == <<pc, run, results, calls>>
side_vars == <<threads, repo>>

-----------------------------------------------------------------------------
(* Optional values: Python None and a present value. *)
None == <<>>
Some(x) == <<x>>
IsNone(o) == Len(o) = 0
Val(o) == o[1]

Min(a, b) == IF a < b THEN a ELSE b
Max(a, b) == IF a > b THEN a ELSE b

-----------------------------------------------------------------------------
(* CSV cells as pandas hands them to the row loop.  A numeric column with   *)
(* an empty cell is read as float64: the empty cell is NaN and the other   *)
(* cells of the column are floats.                                         *)
IntCell(n) == [t |-> "int", v |-> n]
FloatCell(n) == [t |-> "float", v |-> n]
StrCell(s) == [t |-> "str", v |-> s]
NaNCell == [t |-> "nan", v |-> 0]

(* Tokens of the texts: numbers below 100 stand for themselves. *)
TokNaN == 100     \* "nan", how an f-string prints a missing cell
TokEmpty == 101   \* ''
TokDi == 102      \* the literal " 第" of the article text
TokTiao == 103    \* the literal "條 " of the article text
TokTimu == 104    \* the literal "題目: " of the option text
TokXuanxiang == 105  \* the literal "\n選項 " of the option text
TokColon == 106   \* the literal ": " of the option text

(* The text "n.0" of the float n. *)
FloatTok(n) == 200 + n

(* How an f-string, or str(), renders a cell. *)
Fmt(cell) ==
    IF cell.t = "nan" THEN TokNaN
    ELSE IF cell.t = "float" THEN FloatTok(cell.v)
    ELSE cell.v

(* Column names: law_code 法規代碼, law_name 法規名稱, chapter_title 章節標題,   *)
(* article_no_main 條文主號, article_no_sub 條文次號, content 條文完整內容,      *)
(* category 法規類別, authority 主管機關, revision_date 修正日期（民國）,         *)
(* chapter_no 章節編號.                                                        *)
IndexedColumns == {"law_code", "law_name", "chapter_title", "article_no_main",
                   "article_no_sub", "content"}
AllColumns == IndexedColumns \cup {"category", "authority", "revision_date",
                                   "chapter_no"}

(* row['條文次號'] > 0: NaN compares False, a str raises TypeError. *)
SubPositive(row) ==
    row.article_no_sub.t \in {"int", "float"} /\ row.article_no_sub.v > 0

(* The row raises while its article dict is built: row[col] of an absent   *)
(* column is a KeyError, str > 0 is a TypeError.                           *)
RowRaises(csv, row) ==
    \/ ~(IndexedColumns \subseteq csv.columns)
    \/ row.article_no_sub.t = "str"

(* row.get(col, '') *)
RowGet(csv, row, col) == IF col \in csv.columns THEN row[col] ELSE StrCell(TokEmpty)

ArticleId(row) ==
    IF SubPositive(row)
    THEN <<Fmt(row.law_code), Fmt(row.article_no_main), Fmt(row.article_no_sub)>>
    ELSE <<Fmt(row.law_code), Fmt(row.article_no_main)>>

Article(csv, row) ==
    [id |-> ArticleId(row),
     law_code |-> row.law_code,
     law_name |-> row.law_name,
     chapter_title |-> row.chapter_title,
     article_no_main |-> row.article_no_main,
     article_no_sub |-> row.article_no_sub,
     content |-> row.content,
     category |-> RowGet(csv, row, "category"),
     authority |-> RowGet(csv, row, "authority")]

(* The row loop of load_law_articles: the articles appended before the     *)
(* first raising row, and whether a row raised.                            *)
ConvertRows(csv) ==
    LET n == Len(csv.rows)
        bad == {i \in 1..n : RowRaises(csv, csv.rows[i])}
        stop == IF bad = {} THEN n + 1 ELSE CHOOSE i \in bad : \A j \in bad : i <= j
    IN [raised |-> bad # {},
        articles |-> [i \in 1..(stop - 1) |-> Article(csv, csv.rows[i])]]

-----------------------------------------------------------------------------
(* The embedding provider. *)
TokVec(tok) == <<(tok % 3) - 1, ((tok \div 3) % 3) - 1>>

RECURSIVE EmbedText(_)
EmbedText(text) ==
    IF Len(text) = 0 THEN <<0, 0>>
    ELSE LET h == TokVec(Head(text))
             r == EmbedText(Tail(text))
         IN <<h[1] + r[1], h[2] + r[2]>>

(* client.embeddings.create(input=batch): one vector per text, in order. *)
EmbeddingsCreate(batch) == [i \in 1..Len(batch) |-> EmbedText(batch[i])]

ArticleText(article) ==
    <<Fmt(article.law_name), TokDi, Fmt(article.article_no_main), TokTiao,
      Fmt(article.content)>>

batch_size == 100

NumBatches(n) == (n + batch_size - 1) \div batch_size

(* A batch loop that keeps the vectors of the latest batch only. *)
RECURSIVE BatchLoopKeepsLatest(_, _, _, _)
BatchLoopKeepsLatest(law_texts, i, embeddings, fail_at) ==
    IF i >= Len(law_texts)
    THEN [raised |-> FALSE, embeddings |-> embeddings,
          provider_calls |-> i \div batch_size, batches |-> <<>>]
    ELSE LET batch == SubSeq(law_texts, i + 1, Min(i + batch_size, Len(law_texts)))
         IN IF fail_at = (i \div batch_size) + 1
            THEN [raised |-> TRUE, embeddings |-> embeddings,
                  provider_calls |-> (i \div batch_size) + 1,
                  batches |-> <<batch>>]
            ELSE [BatchLoopKeepsLatest(law_texts, i + batch_size,
                                       EmbeddingsCreate(batch), fail_at)
                  EXCEPT !.batches = <<batch>> \o @]

(* A batch loop that puts the vectors of each batch in front of the ones  *)
(* it has.                                                                 *)
RECURSIVE BatchLoopPrepends(_, _, _, _)
BatchLoopPrepends(law_texts, i, embeddings, fail_at) ==
    IF i >= Len(law_texts)
    THEN [raised |-> FALSE, embeddings |-> embeddings,
          provider_calls |-> i \div batch_size, batches |-> <<>>]
    ELSE LET batch == SubSeq(law_texts, i + 1, Min(i + batch_size, Len(law_texts)))
         IN IF fail_at = (i \div batch_size) + 1
            THEN [raised |-> TRUE, embeddings |-> embeddings,
                  provider_calls |-> (i \div batch_size) + 1,
                  batches |-> <<batch>>]
            ELSE [BatchLoopPrepends(law_texts, i + batch_size,
                                    EmbeddingsCreate(batch) \o embeddings, fail_at)
                  EXCEPT !.batches = <<batch>> \o @]

(* The batch loop of _build_embeddings from offset i; fail_at is the number *)
(* of the batch whose provider call raises (0: none).  batches is history:  *)
(* the batches submitted to the provider, in submission order.              *)
RECURSIVE BatchLoop(_, _, _, _)
BatchLoop(law_texts, i, embeddings, fail_at) ==
    IF i >= Len(law_texts)
    THEN [raised |-> FALSE, embeddings |-> embeddings,
          provider_calls |-> i \div batch_size, batches |-> <<>>]
    ELSE LET batch == SubSeq(law_texts, i + 1, Min(i + batch_size, Len(law_texts)))
         IN IF fail_at = (i \div batch_size) + 1
            THEN [raised |-> TRUE, embeddings |-> embeddings,
                  provider_calls |-> (i \div batch_size) + 1,
                  batches |-> <<batch>>]
            ELSE [BatchLoop(law_texts, i + batch_size,
                            embeddings \o EmbeddingsCreate(batch), fail_at)
                  EXCEPT !.batches = <<batch>> \o @]

build_embeddings(articles, fail_at) ==
    LET law_texts == [i \in 1..Len(articles) |-> ArticleText(articles[i])]
    IN BatchLoop(law_texts, 0, <<>>, fail_at)

-----------------------------------------------------------------------------
(* Inputs: the CSV files offered to load_law_articles. *)
Row(code, name, main, sub, content) ==
    [law_code |-> StrCell(code), law_name |-> StrCell(name),
     chapter_title |-> StrCell(TokEmpty), article_no_main |-> IntCell(main),
     article_no_sub |-> sub, content |-> StrCell(content),
     category |-> StrCell(TokEmpty), authority |-> StrCell(TokEmpty),
     revision_date |-> StrCell(TokEmpty), chapter_no |-> IntCell(1)]

BigRows == 201

CsvA == [readable |-> TRUE, columns |-> AllColumns,
         rows |-> <<Row(110, 120, 1, IntCell(0), 130),
                    Row(110, 120, 2, IntCell(0), 131),
                    Row(110, 120, 2, IntCell(1), 133)>>]
CsvB == [readable |-> TRUE, columns |-> IndexedColumns,
         rows |-> <<Row(111, 121, 7, FloatCell(1), 134),
                    Row(111, 121, 8, NaNCell, 135)>>]
CsvEmpty == [readable |-> TRUE, columns |-> AllColumns, rows |-> <<>>]
CsvBig == [readable |-> TRUE, columns |-> AllColumns,
           rows |-> [i \in 1..BigRows |->
                        Row(112, 122, i % 100, IntCell(0), 130 + (i % 7))]]
CsvBatch == [readable |-> TRUE, columns |-> AllColumns,
             rows |-> [i \in 1..batch_size |-> CsvBig.rows[i]]]
CsvNoColumn == [readable |-> TRUE, columns |-> AllColumns \ {"content"},
                rows |-> CsvA.rows]
CsvStrSub == [readable |-> TRUE, columns |-> AllColumns,
              rows |-> <<Row(110, 120, 1, StrCell(140), 130),
                         Row(110, 120, 2, StrCell(141), 131)>>]
CsvUnreadable == [readable |-> FALSE, columns |-> {}, rows |-> <<>>]
(* Three articles whose texts the provider embeds as <<1, 0>>, <<0, 1>> and *)
(* <<-1, 0>>.                                                               *)
CsvUnit == [readable |-> TRUE, columns |-> AllColumns,
            rows |-> <<Row(110, 122, 4, IntCell(0), 131),
                       Row(110, 122, 13, IntCell(0), 133),
                       Row(110, 122, 22, IntCell(0), 138)>>]

(* Files with an empty cell: no sub-number, no law code, no content, no    *)
(* main number in the second row.                                          *)
CsvNoSubNumber == [readable |-> TRUE, columns |-> AllColumns,
                   rows |-> <<Row(113, 123, 5, FloatCell(2), 130),
                              Row(113, 123, 6, NaNCell, 131)>>]
CsvNoLawCode == [readable |-> TRUE, columns |-> AllColumns,
                 rows |-> <<Row(110, 120, 1, IntCell(0), 130),
                            [Row(110, 120, 2, IntCell(0), 131)
                                EXCEPT !.law_code = NaNCell]>>]
CsvNoContent == [readable |-> TRUE, columns |-> AllColumns,
                 rows |-> <<Row(110, 120, 1, IntCell(0), 130),
                            [Row(110, 120, 2, IntCell(0), 131)
                                EXCEPT !.content = NaNCell]>>]
CsvNoMain == [readable |-> TRUE, columns |-> AllColumns,
              rows |-> <<[Row(110, 120, 1, IntCell(0), 130)
                             EXCEPT !.article_no_main = FloatCell(1)],
                         [Row(110, 120, 2, IntCell(0), 131)
                             EXCEPT !.article_no_main = NaNCell]>>]

CsvFiles == {CsvA, CsvB, CsvEmpty, CsvNoColumn, CsvStrSub, CsvUnreadable}
LoaderCsvFiles == {CsvA, CsvB, CsvEmpty, CsvNoColumn, CsvStrSub, CsvUnreadable,
                   CsvNoSubNumber, CsvNoLawCode, CsvNoContent, CsvNoMain}
BuildCsvFiles == {CsvA, CsvB, CsvEmpty, CsvBatch, CsvBig, CsvNoColumn, CsvUnreadable}

-----------------------------------------------------------------------------
(* Outcome of a call: what it returned or raised, how many provider calls  *)
(* it issued, what it wrote to its output file, and (history) the calls it *)
(* issued and the arguments of a match call.                               *)
Returned(op, value, n) ==
    [op |-> op, status |-> "return", error |-> "", value |-> Some(value),
     provider_calls |-> n, written |-> None, calls |-> <<>>, args |-> None]
Raised(op, error, n) ==
    [op |-> op, status |-> "raise", error |-> error, value |-> None,
     provider_calls |-> n, written |-> None, calls |-> <<>>, args |-> None]

(* History: the text a match call embeds and the top_k it was given. *)
MatchArgs(text, top_k) == Some([text |-> text, top_k |-> top_k])

(* History: what a match call adds to the remembered earlier call: that a  *)
(* call followed it, and whether a call with other arguments did.          *)
Noted(op, args) ==
    IF IsNone(pinned) THEN pinned
    ELSE Some([Val(pinned) EXCEPT
                  !.later = TRUE,
                  !.between = @ \/ op # "match_question" \/ args # Val(pinned).call.args])

(* History: the file a load call was given. *)
LoadArgs(csv) == Some([csv |-> csv])

(* load_law_articles(csv_path); fail_at: the batch whose provider call raises. *)
LoadOutcome(csv, fail_at) ==
    IF ~csv.readable
    THEN [ok |-> FALSE, how |-> "read_csv raised", articles |-> law_articles,
          embeddings |-> law_embeddings, from |-> built_from, provider_calls |-> 0,
          batches |-> <<>>]
    ELSE LET conv == ConvertRows(csv)
             b == build_embeddings(conv.articles, fail_at)
         IN IF conv.raised
            THEN [ok |-> FALSE, how |-> "row raised", articles |-> conv.articles,
                  embeddings |-> law_embeddings, from |-> built_from,
                  provider_calls |-> 0, batches |-> <<>>]
            ELSE IF b.raised
            THEN [ok |-> FALSE, how |-> "provider raised", articles |-> conv.articles,
                  embeddings |-> law_embeddings, from |-> built_from,
                  provider_calls |-> b.provider_calls, batches |-> b.batches]
            ELSE [ok |-> TRUE, how |-> "built", articles |-> conv.articles,
                  embeddings |-> Some(b.embeddings), from |-> conv.articles,
                  provider_calls |-> b.provider_calls, batches |-> b.batches]

load_law_articles(csv, fail_at) ==
    /\ pc = "idle"
    /\ fail_at \in 0..NumBatches(Len(csv.rows))
    /\ \E out \in {LoadOutcome(csv, fail_at)} :
          /\ law_articles' = out.articles
          /\ law_embeddings' = out.embeddings
          /\ built_from' = out.from
          /\ ever_loaded' = (ever_loaded \/ out.ok)
          /\ last_load' = out.how
          /\ ret' = [Returned("load_law_articles", out.ok, out.provider_calls)
                        EXCEPT !.calls = out.batches, !.args = LoadArgs(csv)]
    /\ pinned' = None
    /\ UNCHANGED <<argsort_ties, exam_vars, side_vars>>

-----------------------------------------------------------------------------
(* LawArticleLoader.load_from_csv (src/src/models/data_loaders.py) and     *)
(* LawArticle (src/src/models/law_models.py).                              *)

(* int(cell) raises ValueError on NaN and on a text that is no number. *)
IntRaises(cell) == cell.t \in {"nan", "str"}

(* int(cell) *)
PyInt(cell) == cell.v

(* The columns load_from_csv reads with row[...]. *)
LoaderColumns == {"law_code", "law_name", "revision_date", "chapter_no",
                  "chapter_title", "article_no_main", "article_no_sub", "content"}

(* The row raises while its LawArticle is built: KeyError of an absent     *)
(* column, ValueError of int().                                            *)
LoaderRowRaises(csv, row) ==
    \/ ~(LoaderColumns \subseteq csv.columns)
    \/ IntRaises(row.chapter_no)
    \/ IntRaises(row.article_no_main)
    \/ IntRaises(row.article_no_sub)

(* str(row.get(col, '')) if pd.notna(row.get(col)) else None *)
OptionalStr(csv, row, col) ==
    IF col \in csv.columns /\ row[col].t # "nan" THEN Some(Fmt(row[col])) ELSE None

LawArticle(csv, row) ==
    [law_code |-> Fmt(row.law_code),
     law_name |-> Fmt(row.law_name),
     revision_date |-> Fmt(row.revision_date),
     chapter_no |-> PyInt(row.chapter_no),
     chapter_title |-> Fmt(row.chapter_title),
     article_no_main |-> PyInt(row.article_no_main),
     article_no_sub |-> PyInt(row.article_no_sub),
     content |-> Fmt(row.content),
     category |-> OptionalStr(csv, row, "category"),
     authority |-> OptionalStr(csv, row, "authority")]

(* LawArticle.article_id *)
article_id(article) ==
    IF article.article_no_sub > 0
    THEN <<article.law_code, article.article_no_main, article.article_no_sub>>
    ELSE <<article.law_code, article.article_no_main>>

(* The body of load_from_csv: any exception is logged and raised again. *)
LoadFromCsv(csv) ==
    IF ~csv.readable THEN [raised |-> TRUE, articles |-> <<>>]
    ELSE IF \E i \in 1..Len(csv.rows) : LoaderRowRaises(csv, csv.rows[i])
    THEN [raised |-> TRUE, articles |-> <<>>]
    ELSE [raised |-> FALSE,
          articles |-> [i \in 1..Len(csv.rows) |-> LawArticle(csv, csv.rows[i])]]

load_from_csv(csv) ==
    /\ pc = "idle"
    /\ \E out \in {LoadFromCsv(csv)} :
          ret' = [(IF out.raised
                   THEN Raised("load_from_csv", "Exception", 0)
                   ELSE Returned("load_from_csv", out.articles, 0))
                  EXCEPT !.args = LoadArgs(csv)]
    /\ UNCHANGED <<matcher_vars, exam_vars, side_vars>>

-----------------------------------------------------------------------------
(* Ranking. *)
Dot(u, v) == u[1] * v[1] + u[2] * v[2]

(* A list left in the order it has: the [::-1] forgotten. *)
NotReversed(a) == a

Reverse(a) == [p \in 1..Len(a) |-> a[Len(a) + 1 - p]]

(* The orders np.argsort may give to indices of equal score: its default   *)
(* kind is not stable, so the order is a property of the build and of the  *)
(* array, the same on every call.                                          *)
TieOrders == {"index order", "reverse index order"}

(* An argsort whose order of equal scores changes from one call to the next. *)
TiedUnsteady(s, idx, v) ==
    LET same == SelectSeq(idx, LAMBDA i : s[i] = v)
    IN IF ret.op = "match_question" THEN Reverse(same) ELSE same

(* The indices of equal score, in the order this build's argsort puts them. *)
Tied(s, idx, v) ==
    LET same == SelectSeq(idx, LAMBDA i : s[i] = v)
    IN IF argsort_ties = "index order" THEN same ELSE Reverse(same)

(* The indices idx whose score is in vals, by ascending score. *)
RECURSIVE SortByScore(_, _, _)
SortByScore(s, idx, vals) ==
    IF vals = {} THEN <<>>
    ELSE LET v == CHOOSE x \in vals : \A y \in vals : x <= y
         IN Tied(s, idx, v) \o SortByScore(s, idx, vals \ {v})

(* np.argsort(similarities): indices by ascending score. *)
ArgSort(s) ==
    LET n == Len(s)
    IN SortByScore(s, [i \in 1..n |-> i], {s[i] : i \in 1..n})

(* The start of a slice written a[len(a) - top_k:], which wraps around when *)
(* top_k exceeds the length.                                               *)
SliceStartFromLength(n, top_k) ==
    IF top_k > 0
    THEN (IF n - top_k >= 0 THEN n - top_k ELSE Max(2 * n - top_k, 0))
    ELSE Min(-top_k, n)

(* 0-based start of the Python slice a[-top_k:] of a list of n elements. *)
SliceStart(n, top_k) == IF top_k > 0 THEN Max(n - top_k, 0) ELSE Min(-top_k, n)

(* np.argsort(similarities)[:top_k][::-1]: the slice taken from the front. *)
TopIndicesFromFront(similarities, top_k) ==
    LET order == ArgSort(similarities)
    IN Reverse(SubSeq(order, 1, Min(Max(top_k, 0), Len(order))))

(* np.argsort(similarities)[-top_k:][::-1] *)
TopIndices(similarities, top_k) ==
    LET order == ArgSort(similarities)
        n == Len(order)
    IN Reverse(SubSeq(order, SliceStart(n, top_k) + 1, n))

ErrNotBuilt == "ValueError: embeddings not built"
ErrProvider == "ProviderError"
ErrShapes == "ValueError: shapes not aligned"
ErrIndex == "IndexError"

Failure(error, n) ==
    [ok |-> FALSE, error |-> error, provider_calls |-> n, matched_articles |-> <<>>,
     law_articles |-> law_articles]

(* The corpus after a result loop that writes the similarity to the corpus *)
(* record itself and lists that record.                                    *)
CorpusAfterWithoutCopy(top_indices, similarities) ==
    [i \in 1..Len(law_articles) |->
        IF \E p \in 1..Len(top_indices) : top_indices[p] = i
        THEN [similarity |-> similarities[i]] @@ law_articles[i]
        ELSE law_articles[i]]

(* The corpus after the result loop: article = self.law_articles[idx].copy() *)
(* makes article['similarity'] = ... a write to the copy.                    *)
CorpusAfter(top_indices, similarities) == law_articles

(* A match that asks the provider first and treats a missing index as an   *)
(* empty one.                                                              *)
MatchOutcomeWithoutGuard(text, top_k, provider_fails) ==
    IF provider_fails THEN Failure(ErrProvider, 1)
    ELSE [ok |-> TRUE, error |-> "", provider_calls |-> 1, matched_articles |-> <<>>,
          law_articles |-> law_articles]

(* The body shared by match_question and match_option, from the None check  *)
(* to the matched_articles list; text is the text that is embedded.         *)
MatchOutcome(text, top_k, provider_fails) ==
    IF IsNone(law_embeddings) THEN Failure(ErrNotBuilt, 0)
    ELSE IF provider_fails THEN Failure(ErrProvider, 1)
    ELSE LET E == Val(law_embeddings)
             q == EmbeddingsCreate(<<text>>)[1]
         IN IF Len(E) = 0 THEN Failure(ErrShapes, 1)
            ELSE LET similarities == [i \in 1..Len(E) |-> Dot(q, E[i])]
                     top_indices == TopIndices(similarities, top_k)
                 IN IF \E p \in 1..Len(top_indices) : top_indices[p] > Len(law_articles)
                    THEN Failure(ErrIndex, 1)
                    ELSE [ok |-> TRUE, error |-> "", provider_calls |-> 1,
                          matched_articles |->
                              [p \in 1..Len(top_indices) |->
                                  [similarity |-> similarities[top_indices[p]]]
                                      @@ law_articles[top_indices[p]]],
                          law_articles |-> CorpusAfter(top_indices, similarities)]

(* The token of an option letter. *)
LetterTok(option_letter) == IF option_letter = "A" THEN 65 ELSE 66

(* combined_text of match_option *)
CombinedText(question_content, option_letter, option_content) ==
    <<TokTimu>> \o question_content
        \o <<TokXuanxiang, LetterTok(option_letter), TokColon>> \o option_content

MatchResult(question_id, question_content, out) ==
    [question_id |-> question_id, question_content |-> question_content,
     matched_articles |-> out.matched_articles, processing_time |-> out.provider_calls]

OptionMatchResult(question_id, option_letter, option_content, out) ==
    [question_id |-> question_id, option_letter |-> option_letter,
     option_content |-> option_content,
     matched_articles |-> out.matched_articles, processing_time |-> out.provider_calls]

(* Inputs of the direct match calls. *)
MaxTopK == 4
TopKs == (-1)..MaxTopK
QueryTexts == {<<130>>, <<131, 133>>}
LetterA == "A"
LetterB == "B"
OptionTexts == {<<135>>}

match_question(question_content, question_id, top_k, provider_fails) ==
    /\ pc = "idle"
    /\ \E out \in {MatchOutcome(question_content, top_k, provider_fails)} :
          /\ law_articles' = out.law_articles
          /\ ret' = [(IF out.ok
                   THEN Returned("match_question",
                                 MatchResult(question_id, question_content, out),
                                 out.provider_calls)
                   ELSE Raised("match_question", out.error, out.provider_calls))
                  EXCEPT !.args = MatchArgs(question_content, top_k)]
    /\ pinned' = Noted("match_question", MatchArgs(question_content, top_k))
    /\ UNCHANGED <<build_vars, exam_vars, side_vars>>

match_option(question_content, option_letter, option_content, question_id, top_k, provider_fails) ==
    /\ pc = "idle"
    /\ \E out \in {MatchOutcome(CombinedText(question_content, option_letter,
                                            option_content),
                               top_k, provider_fails)} :
          /\ law_articles' = out.law_articles
          /\ ret' = [(IF out.ok
                   THEN Returned("match_option",
                                 OptionMatchResult(question_id, option_letter,
                                                   option_content, out),
                                 out.provider_calls)
                   ELSE Raised("match_option", out.error, out.provider_calls))
                  EXCEPT !.args = MatchArgs(CombinedText(question_content,
                                                         option_letter,
                                                         option_content), top_k)]
    /\ pinned' = Noted("match_option",
                       MatchArgs(CombinedText(question_content, option_letter,
                                              option_content), top_k))
    /\ UNCHANGED <<build_vars, exam_vars, side_vars>>

-----------------------------------------------------------------------------
(* process_exam_questions *)

(* d.get(key, default) *)
DictGet(d, key, default) == IF key \in DOMAIN d THEN d[key] ELSE default

(* str(x) *)
PyStr(x) == <<"str", x>>

embedding_model == "text-embedding-3-large"

(* Inputs: the exam files.  options is the dict in insertion order, as      *)
(* (letter, text) pairs.                                                    *)
ExamD == [readable |-> TRUE,
          data |-> [multiple_choice_section |-> [questions |-> <<
              [question_number |-> 1, content |-> <<130>>,
               options |-> <<<<LetterA, <<131>>>>, <<LetterB, <<133>>>>>>],
              [question_number |-> 2, content |-> <<134>>,
               options |-> <<<<LetterA, <<135>>>>, <<LetterB, <<130>>>>>>]>>]]]
ExamNoNumber == [readable |-> TRUE,
          data |-> [multiple_choice_section |-> [questions |-> <<
              [question_number |-> 1, content |-> <<130>>,
               options |-> <<<<LetterA, <<131>>>>>>],
              [content |-> <<131>>, options |-> <<<<LetterA, <<133>>>>>>],
              [question_number |-> 3, content |-> <<134>>, options |-> <<>>]>>]]]
ExamNoContent == [readable |-> TRUE,
          data |-> [multiple_choice_section |-> [questions |-> <<
              [question_number |-> 1, options |-> <<<<LetterA, <<131>>>>>>],
              [question_number |-> 2, content |-> <<134>>, options |-> <<>>]>>]]]
ExamNoOptions == [readable |-> TRUE,
          data |-> [multiple_choice_section |-> [questions |-> <<
              [question_number |-> 1, content |-> <<131, 133>>],
              [question_number |-> 2, content |-> <<134>>,
               options |-> <<<<LetterB, <<135>>>>>>]>>]]]
ExamNoSection == [readable |-> TRUE, data |-> [essay_section |-> <<>>]]
ExamUnreadable == [readable |-> FALSE, data |-> <<>>]

ExamFiles == {ExamD, ExamNoNumber, ExamNoContent, ExamNoOptions, ExamNoSection,
              ExamUnreadable}

(* exam_data.get('multiple_choice_section', {}).get('questions', []) *)
McQuestions(exam_data) ==
    LET section == DictGet(exam_data, "multiple_choice_section", <<>>)
    IN DictGet(section, "questions", <<>>)

InitialResults(questions_file) ==
    [metadata |-> [source_file |-> questions_file,
                   embedding_model |-> embedding_model,
                   total_law_articles |-> Len(law_articles)],
     question_matches |-> <<>>,
     option_matches |-> <<>>,
     statistics |-> [total_processing_time |-> 0,
                     questions_processed |-> 0,
                     options_processed |-> 0]]

(* A question block that files the result of a failed call too. *)
RecordQuestionKeepsFailure(res, question_id, question_content, out) ==
    [res EXCEPT
        !.question_matches =
            Append(@, MatchResult(question_id, question_content, out)),
        !.statistics.questions_processed = @ + 1]

(* The try block of the question: append the result and count it. *)
RecordQuestion(res, question_id, question_content, out) ==
    IF out.ok
    THEN [res EXCEPT
            !.question_matches =
                Append(@, MatchResult(question_id, question_content, out)),
            !.statistics.questions_processed = @ + 1]
    ELSE res

(* An option block that counts the option before its match is known to     *)
(* have succeeded.                                                         *)
RecordOptionCountsFirst(res, question_id, option_letter, option_content, out) ==
    IF out.ok
    THEN [res EXCEPT
            !.option_matches =
                Append(@, OptionMatchResult(question_id, option_letter,
                                            option_content, out)),
            !.statistics.options_processed = @ + 1]
    ELSE [res EXCEPT !.statistics.options_processed = @ + 1]

(* The try block of the option: append the result and count it. *)
RecordOption(res, question_id, option_letter, option_content, out) ==
    IF out.ok
    THEN [res EXCEPT
            !.option_matches =
                Append(@, OptionMatchResult(question_id, option_letter,
                                            option_content, out)),
            !.statistics.options_processed = @ + 1]
    ELSE res

Call(kind, q, o, out) ==
    [kind |-> kind, q |-> q, o |-> o, ok |-> out.ok, error |-> out.error,
     provider_calls |-> out.provider_calls]

Idle == <<>>

(* Opening and parsing questions_file, the results dict, the question list. *)
ProcessExamStart(exam, output_file) ==
    /\ pc = "idle"
    /\ IF ~exam.readable
       THEN /\ ret' = Raised("process_exam_questions", "OSError", 0)
            /\ UNCHANGED exam_vars
       ELSE /\ pc' = "question"
            /\ run' = [questions_file |-> exam, output_file |-> output_file,
                       mc_questions |-> McQuestions(exam.data),
                       qi |-> 1, oi |-> 0, question_id |-> <<>>,
                       question_content |-> <<>>, options |-> <<>>]
            /\ results' = InitialResults(exam)
            /\ calls' = <<>>
            /\ ret' = [Raised("process_exam_questions", "", 0) EXCEPT
                          !.status = "running"]
    /\ UNCHANGED <<matcher_vars, side_vars>>

(* A question that lacks its number or its content: the KeyError of lines   *)
(* 218-219 leaves process_exam_questions.                                   *)
QuestionRaises(question) ==
    \/ "question_number" \notin DOMAIN question
    \/ "content" \notin DOMAIN question

(* One iteration of the question loop up to its option loop. *)
ProcessQuestion(provider_fails) ==
    /\ pc = "question"
    /\ run.qi <= Len(run.mc_questions)
    /\ LET question == run.mc_questions[run.qi]
       IN IF QuestionRaises(question)
          THEN /\ ret' = [Raised("process_exam_questions", "KeyError", 0) EXCEPT
                             !.calls = calls]
               /\ pc' = "idle"
               /\ run' = Idle
               /\ results' = Idle
               /\ calls' = <<>>
               /\ UNCHANGED law_articles
          ELSE LET question_id == PyStr(question.question_number)
                   question_content == question.content
                   options == DictGet(question, "options", <<>>)
               IN \E out \in {MatchOutcome(question_content, 1, provider_fails)} :
                  /\ results' = RecordQuestion(results, question_id,
                                               question_content, out)
                  /\ calls' = Append(calls, Call("question", run.qi, 0, out))
                  /\ run' = [run EXCEPT
                                !.question_id = question_id,
                                !.question_content = question_content,
                                !.options = options,
                                !.qi = IF Len(options) = 0 THEN @ + 1 ELSE @,
                                !.oi = IF Len(options) = 0 THEN 0 ELSE 1]
                  /\ pc' = IF Len(options) = 0 THEN "question" ELSE "option"
                  /\ law_articles' = out.law_articles
                  /\ UNCHANGED ret
    /\ UNCHANGED <<build_vars, pinned, side_vars>>

(* An option loop that gives up the remaining options of a question once   *)
(* the match of one option has failed.                                     *)
ProcessOptionStopsOnFailure(provider_fails) ==
    /\ pc = "option"
    /\ LET option_letter == run.options[run.oi][1]
           option_content == run.options[run.oi][2]
       IN \E out \in {MatchOutcome(CombinedText(run.question_content, option_letter,
                                                option_content),
                                   1, provider_fails)} :
          LET last == run.oi = Len(run.options) \/ ~out.ok
          IN /\ results' = RecordOption(results, run.question_id, option_letter,
                                        option_content, out)
             /\ calls' = Append(calls, Call("option", run.qi, run.oi, out))
             /\ run' = [run EXCEPT !.qi = IF last THEN @ + 1 ELSE @,
                                   !.oi = IF last THEN 0 ELSE @ + 1]
             /\ pc' = IF last THEN "question" ELSE "option"
             /\ law_articles' = out.law_articles
    /\ UNCHANGED <<build_vars, pinned, ret, side_vars>>

(* One iteration of the option loop. *)
ProcessOption(provider_fails) ==
    /\ pc = "option"
    /\ LET option_letter == run.options[run.oi][1]
           option_content == run.options[run.oi][2]
           last == run.oi = Len(run.options)
       IN \E out \in {MatchOutcome(CombinedText(run.question_content, option_letter,
                                                option_content),
                                   1, provider_fails)} :
          /\ results' = RecordOption(results, run.question_id, option_letter,
                                     option_content, out)
          /\ calls' = Append(calls, Call("option", run.qi, run.oi, out))
          /\ run' = [run EXCEPT !.qi = IF last THEN @ + 1 ELSE @,
                                !.oi = IF last THEN 0 ELSE @ + 1]
          /\ pc' = IF last THEN "question" ELSE "option"
          /\ law_articles' = out.law_articles
    /\ UNCHANGED <<build_vars, pinned, ret, side_vars>>

(* time.time() ticks once per provider round trip. *)
Elapsed(log) == Cardinality({i \in 1..Len(log) : log[i].provider_calls > 0})

(* After the loop: the total time, the output file, the returned report. *)
ProcessExamFinish ==
    /\ pc = "question"
    /\ run.qi > Len(run.mc_questions)
    /\ LET final == [results EXCEPT
                        !.statistics.total_processing_time = Elapsed(calls)]
       IN ret' = [Returned("process_exam_questions", final, Elapsed(calls)) EXCEPT
                     !.written = IF run.output_file THEN Some(final) ELSE None,
                     !.calls = calls]
    /\ pc' = "idle"
    /\ run' = Idle
    /\ results' = Idle
    /\ calls' = <<>>
    /\ UNCHANGED <<matcher_vars, side_vars>>

-----------------------------------------------------------------------------
(* process_single_json (src/tools/scripts/run_embedding_matching.py): the  *)
(* per-option run of one QA file on a matcher of its own.                  *)

single_top_k == 3

(* QA files: qa_data['questions'], each with its number, text and options. *)
QaD == [readable |-> TRUE,
        questions |-> <<[question_number |-> 1, question_text |-> <<130>>,
                         options |-> <<<<131>>, <<133>>>>, answer |-> LetterB],
                        [question_number |-> 2, question_text |-> <<7>>,
                         options |-> <<<<135>>>>, answer |-> LetterA]>>]
QaNoOptions == [readable |-> TRUE,
                questions |-> <<[question_number |-> 1, question_text |-> <<5>>,
                                 answer |-> LetterA],
                                [question_number |-> 2, question_text |-> <<134>>,
                                 options |-> <<<<1>>>>, answer |-> LetterA]>>]
QaUnreadable == [readable |-> FALSE, questions |-> <<>>]
QaFiles == {QaD, QaNoOptions, QaUnreadable}

(* chr(ord('A') + i) *)
OptionLetter(i) == IF i = 0 THEN LetterA ELSE LetterB

(* load_law_articles on the matcher the run has just constructed. *)
LoadOnNewMatcher(csv, fail_at) ==
    LET out == LoadOutcome(csv, fail_at)
    IN IF out.ok THEN out
       ELSE [out EXCEPT !.embeddings = None, !.from = <<>>,
                        !.articles = IF out.how = "read_csv raised" THEN <<>> ELSE @]

(* The head of process_single_json: the QA file, the matcher, the load,    *)
(* the results dict.                                                       *)
SingleStart(qa, csv, fail_at) ==
    /\ pc = "idle"
    /\ fail_at \in 0..NumBatches(Len(csv.rows))
    /\ IF ~qa.readable
       THEN /\ ret' = Raised("process_single_json", "OSError", 0)
            /\ UNCHANGED <<index_vars, exam_vars>>
       ELSE \E out \in {LoadOnNewMatcher(csv, fail_at)} :
            /\ law_articles' = out.articles
            /\ law_embeddings' = out.embeddings
            /\ built_from' = out.from
            /\ ever_loaded' = out.ok
            /\ last_load' = out.how
            /\ UNCHANGED argsort_ties
            /\ IF ~out.ok
               THEN /\ ret' = Raised("process_single_json", "RuntimeError",
                                     out.provider_calls)
                    /\ UNCHANGED exam_vars
               ELSE /\ pc' = "single"
                    /\ run' = [questions |-> qa.questions, qi |-> 1, i |-> 0,
                               option_matches |-> <<>>, total_options |-> 0]
                    /\ results' = [metadata |->
                                       [source_file |-> qa,
                                        laws_csv |-> csv,
                                        total_questions |-> Len(qa.questions),
                                        total_options_processed |-> 0],
                                   question_matches |-> <<>>]
                    /\ calls' = <<>>
                    /\ ret' = [Raised("process_single_json", "", 0) EXCEPT
                                  !.status = "running"]
    /\ pinned' = None
    /\ UNCHANGED side_vars

(* One iteration of the option loop: match_option is called bare, so what  *)
(* it raises leaves process_single_json.                                   *)
SingleOption(provider_fails) ==
    /\ pc = "single"
    /\ run.qi <= Len(run.questions)
    /\ LET q == run.questions[run.qi]
           options == DictGet(q, "options", <<>>)
       IN /\ run.i < Len(options)
          /\ \E out \in {MatchOutcome(CombinedText(q.question_text,
                                                    OptionLetter(run.i),
                                                    options[run.i + 1]),
                                       single_top_k, provider_fails)} :
                /\ law_articles' = out.law_articles
                /\ IF out.ok
                   THEN /\ calls' = Append(calls, Call("option", run.qi, run.i + 1, out))
                        /\ run' = [run EXCEPT
                                  !.option_matches =
                                      Append(@, [option_letter |-> OptionLetter(run.i),
                                                 option_text |-> options[run.i + 1],
                                                 is_correct_answer |->
                                                     OptionLetter(run.i) = q.answer,
                                                 matched_articles |-> out.matched_articles,
                                                 processing_time |-> out.provider_calls]),
                                  !.total_options = @ + 1,
                                  !.i = @ + 1]
                        /\ UNCHANGED <<pc, results, ret>>
                   ELSE /\ ret' = [Raised("process_single_json", out.error,
                                          Elapsed(calls) + out.provider_calls) EXCEPT
                                      !.calls = Append(calls, Call("option", run.qi,
                                                                   run.i + 1, out))]
                        /\ pc' = "idle"
                        /\ run' = Idle
                        /\ results' = Idle
                        /\ calls' = <<>>
    /\ UNCHANGED <<build_vars, pinned, side_vars>>

(* After the options of a question: its entry is appended. *)
SingleQuestionEnd ==
    /\ pc = "single"
    /\ run.qi <= Len(run.questions)
    /\ LET q == run.questions[run.qi]
       IN /\ run.i >= Len(DictGet(q, "options", <<>>))
          /\ results' = [results EXCEPT
                            !.question_matches =
                                Append(@, [question_number |-> q.question_number,
                                           question_text |-> q.question_text,
                                           correct_answer |-> q.answer,
                                           options |-> run.option_matches])]
    /\ run' = [run EXCEPT !.qi = @ + 1, !.i = 0, !.option_matches = <<>>]
    /\ UNCHANGED <<matcher_vars, pc, calls, ret, side_vars>>

(* After the question loop: the count of options, the output file. *)
SingleFinish ==
    /\ pc = "single"
    /\ run.qi > Len(run.questions)
    /\ LET final == [results EXCEPT
                        !.metadata.total_options_processed = run.total_options]
       IN ret' = [Returned("process_single_json", None, Elapsed(calls)) EXCEPT
                     !.written = Some(final), !.calls = calls]
    /\ pc' = "idle"
    /\ run' = Idle
    /\ results' = Idle
    /\ calls' = <<>>
    /\ UNCHANGED <<matcher_vars, side_vars>>

-----------------------------------------------------------------------------
(* DataRepository (src/src/models/data_loaders.py): the lazily loaded law  *)
(* articles and exam questions.                                            *)

(* ExamQuestion(...) of one entry of a section; the keys read with [] must *)
(* be there.                                                               *)
ExamQuestion(q, section) ==
    [question_number |-> q.question_number, content |-> q.content,
     options |-> IF section = "essay" THEN <<>> ELSE DictGet(q, "options", <<>>),
     section |-> section]

SectionQuestions(data, key) == DictGet(DictGet(data, key, <<>>), "questions", <<>>)

SectionRaises(qs) ==
    \E i \in 1..Len(qs) : {"question_number", "content"} \ DOMAIN qs[i] # {}

(* ExamQuestionLoader.load_from_json: the essay questions, then the        *)
(* multiple-choice ones; whatever is raised is logged and raised again.    *)
LoadFromJson(exam) ==
    IF ~exam.readable THEN [raised |-> TRUE, questions |-> <<>>]
    ELSE LET essay == SectionQuestions(exam.data, "essay_section")
             mc == SectionQuestions(exam.data, "multiple_choice_section")
         IN IF SectionRaises(essay) \/ SectionRaises(mc)
            THEN [raised |-> TRUE, questions |-> <<>>]
            ELSE [raised |-> FALSE,
                  questions |-> [i \in 1..Len(essay) |-> ExamQuestion(essay[i], "essay")]
                                \o [i \in 1..Len(mc) |->
                                        ExamQuestion(mc[i], "multiple_choice")]]

(* Inputs: config.exam_sets as the list of its keys, and what the exam     *)
(* file of the first set holds at the time of the load (None: no file).    *)
NoExamSets == <<>>
OneExamSet == <<"exam_113">>
RepoExamSets == {NoExamSets, OneExamSet}
RepoExamFiles == {None, Some(ExamD), Some(ExamNoOptions), Some(ExamNoNumber),
                  Some(ExamUnreadable)}
RepoCsvFiles == {CsvA, CsvB, CsvEmpty, CsvNoColumn, CsvUnreadable}

(* ExamQuestionLoader.load_from_config *)
ExamLoadFromConfig(exam_sets, exam_set_name, file) ==
    IF \A i \in 1..Len(exam_sets) : exam_sets[i] # exam_set_name
    THEN [raised |-> TRUE, questions |-> <<>>]
    ELSE IF IsNone(file) THEN [raised |-> TRUE, questions |-> <<>>]
    ELSE LoadFromJson(Val(file))

(* DataRepository.__init__; the loads and cleared fields count what has    *)
(* happened since the last reload_data.                                    *)
DataRepository ==
    [_law_articles |-> None, _exam_questions |-> None,
     law_loads |-> 0, exam_loads |-> 0,
     law_loaded |-> FALSE, exam_loaded |-> FALSE]

MaxLoads == 3

Count(n) == Min(n + 1, MaxLoads)

(* A law_articles property that loads on every access. *)
LawArticlesUncached(csv) ==
    LET out == LoadFromCsv(csv)
    IN [repo |-> [repo EXCEPT !.law_loads = Count(@),
                              !._law_articles = IF out.raised THEN @ ELSE Some(out.articles),
                              !.law_loaded = @ \/ ~out.raised],
        raised |-> out.raised, value |-> out.articles]

(* The law_articles property. *)
LawArticles(csv) ==
    IF IsNone(repo._law_articles)
    THEN LET out == LoadFromCsv(csv)
         IN [repo |-> [repo EXCEPT !.law_loads = Count(@),
                                   !._law_articles =
                                       IF out.raised THEN @ ELSE Some(out.articles),
                                   !.law_loaded = @ \/ ~out.raised],
             raised |-> out.raised, value |-> out.articles]
    ELSE [repo |-> repo, raised |-> FALSE, value |-> Val(repo._law_articles)]

(* The exam_questions property. *)
ExamQuestions(exam_sets, file) ==
    IF IsNone(repo._exam_questions)
    THEN IF Len(exam_sets) = 0
         THEN [repo |-> repo, raised |-> TRUE, value |-> <<>>]
         ELSE LET out == ExamLoadFromConfig(exam_sets, exam_sets[1], file)
              IN [repo |-> [repo EXCEPT !.exam_loads = Count(@),
                                        !._exam_questions =
                                            IF out.raised THEN @ ELSE Some(out.questions),
                                        !.exam_loaded = @ \/ ~out.raised],
                  raised |-> out.raised, value |-> out.questions]
    ELSE [repo |-> repo, raised |-> FALSE, value |-> Val(repo._exam_questions)]

(* repository.law_articles *)
law_articles_get(csv) ==
    /\ pc = "idle"
    /\ \E out \in {LawArticles(csv)} :
         /\ repo' = out.repo
         /\ ret' = [(IF out.raised THEN Raised("law_articles", "Exception", 0)
                                  ELSE Returned("law_articles", out.value, 0))
                    EXCEPT !.args = LoadArgs(csv)]
    /\ UNCHANGED <<matcher_vars, exam_vars, threads>>

(* repository.exam_questions *)
exam_questions_get(exam_sets, file) ==
    /\ pc = "idle"
    /\ \E out \in {ExamQuestions(exam_sets, file)} :
         /\ repo' = out.repo
         /\ ret' = [(IF out.raised THEN Raised("exam_questions", "Exception", 0)
                                  ELSE Returned("exam_questions", out.value, 0))
                    EXCEPT !.args = Some([exam_sets |-> exam_sets, file |-> file])]
    /\ UNCHANGED <<matcher_vars, exam_vars, threads>>

(* load_exam_set: a load past the cache. *)
load_exam_set(exam_sets, exam_set_name, file) ==
    /\ pc = "idle"
    /\ \E out \in {ExamLoadFromConfig(exam_sets, exam_set_name, file)} :
         ret' = [(IF out.raised THEN Raised("load_exam_set", "Exception", 0)
                                ELSE Returned("load_exam_set", out.questions, 0))
                 EXCEPT !.args = Some([exam_sets |-> exam_sets, file |-> file])]
    /\ UNCHANGED <<matcher_vars, exam_vars, side_vars>>

(* reload_data *)
reload_data ==
    /\ pc = "idle"
    /\ repo' = [repo EXCEPT !._law_articles = None, !._exam_questions = None,
                            !.law_loads = 0, !.exam_loads = 0,
                            !.law_loaded = FALSE, !.exam_loaded = FALSE]
    /\ ret' = Returned("reload_data", None, 0)
    /\ UNCHANGED <<matcher_vars, exam_vars, threads>>

-----------------------------------------------------------------------------
(* Callers of one matcher that run side by side. *)
NumThreads == 2
Threads == 1..NumThreads
Resting == [pc |-> "idle"]

(* A thread is between calls. *)
Free(t) == threads[t].pc \in {"idle", "done"}

(* History: some thread is inside load_law_articles. *)
LoadInProgress == \E u \in Threads : threads[u].pc \in {"rows", "build"}

(* History: a thread whose call runs while a load is in progress. *)
Noticed(th) == [th EXCEPT !.during_load = @ \/ LoadInProgress]

(* The end of a match call; top_indices and index_from are history: the    *)
(* ranks the call computed and the article list its index was built from.  *)
MatchDone(th, ok, error, matched_articles) ==
    [pc |-> "done", op |-> "match", text |-> th.text, top_k |-> th.top_k,
     ok |-> ok, error |-> error, matched_articles |-> matched_articles,
     alone |-> th.alone, during_load |-> th.during_load \/ LoadInProgress,
     top_indices |-> th.top_indices, index_from |-> th.index_from]

(* The call of match_question or match_option on thread t; text is the     *)
(* text that is embedded.  alone is history: what the call returns when    *)
(* nothing else runs.                                                      *)
MatchBegin(t, text, top_k, provider_fails) ==
    /\ pc = "idle"
    /\ Free(t)
    /\ threads' = [threads EXCEPT ![t] =
                      [pc |-> "check", text |-> text, top_k |-> top_k,
                       provider_fails |-> provider_fails,
                       alone |-> MatchOutcome(text, top_k, provider_fails),
                       during_load |-> LoadInProgress,
                       similarities |-> <<>>, top_indices |-> <<>>,
                       index_from |-> <<>>, i |-> 1, article |-> None,
                       matched |-> <<>>]]
    /\ UNCHANGED <<matcher_vars, ret, exam_vars, repo>>

(* if self.law_embeddings is None: raise *)
MatchCheck(t) ==
    /\ pc = "idle"
    /\ threads[t].pc = "check"
    /\ threads' = [threads EXCEPT ![t] =
                      IF IsNone(law_embeddings)
                      THEN MatchDone(@, FALSE, ErrNotBuilt, <<>>)
                      ELSE [Noticed(@) EXCEPT !.pc = "embed"]]
    /\ UNCHANGED <<matcher_vars, ret, exam_vars, repo>>

(* self.client.embeddings.create(...) *)
MatchEmbed(t) ==
    /\ pc = "idle"
    /\ threads[t].pc = "embed"
    /\ threads' = [threads EXCEPT ![t] =
                      IF @.provider_fails
                      THEN MatchDone(@, FALSE, ErrProvider, <<>>)
                      ELSE [Noticed(@) EXCEPT !.pc = "rank"]]
    /\ UNCHANGED <<matcher_vars, ret, exam_vars, repo>>

(* np.dot(question_embedding, self.law_embeddings.T)[0] and the argsort:   *)
(* the second read of self.law_embeddings.                                 *)
MatchRank(t) ==
    /\ pc = "idle"
    /\ threads[t].pc = "rank"
    /\ LET th == threads[t]
           E == Val(law_embeddings)
           q == EmbeddingsCreate(<<th.text>>)[1]
           similarities == [i \in 1..Len(E) |-> Dot(q, E[i])]
       IN \E top_indices \in {IF Len(E) = 0 THEN <<>>
                               ELSE TopIndices(similarities, th.top_k)} :
            threads' = [threads EXCEPT ![t] =
               IF Len(E) = 0
               THEN MatchDone(th, FALSE, ErrShapes, <<>>)
               ELSE IF Len(top_indices) = 0
               THEN MatchDone([th EXCEPT !.index_from = built_from], TRUE, "", <<>>)
               ELSE [Noticed(th) EXCEPT !.pc = "copy",
                                        !.similarities = similarities,
                                        !.top_indices = top_indices,
                                        !.index_from = built_from]]
    /\ UNCHANGED <<matcher_vars, ret, exam_vars, repo>>

(* A loop head that keeps the corpus record itself:                        *)
(* article = self.law_articles[idx]                                        *)
MatchCopyByReference(t) ==
    /\ pc = "idle"
    /\ threads[t].pc = "copy"
    /\ LET th == threads[t]
           idx == th.top_indices[th.i]
       IN threads' = [threads EXCEPT ![t] =
             IF idx > Len(law_articles)
             THEN MatchDone(th, FALSE, ErrIndex, <<>>)
             ELSE [Noticed(th) EXCEPT !.pc = "score",
                                      !.article = Some([shared |-> TRUE, idx |-> idx])]]
    /\ UNCHANGED <<matcher_vars, ret, exam_vars, repo>>

(* article = self.law_articles[idx].copy(): the read of the record list. *)
MatchCopy(t) ==
    /\ pc = "idle"
    /\ threads[t].pc = "copy"
    /\ LET th == threads[t]
           idx == th.top_indices[th.i]
       IN threads' = [threads EXCEPT ![t] =
             IF idx > Len(law_articles)
             THEN MatchDone(th, FALSE, ErrIndex, <<>>)
             ELSE [Noticed(th) EXCEPT !.pc = "score",
                                      !.article = Some([shared |-> FALSE,
                                                        rec |-> law_articles[idx]])]]
    /\ UNCHANGED <<matcher_vars, ret, exam_vars, repo>>

(* The records a list of dicts shows when it is read. *)
Shown(matched, corpus) ==
    [p \in 1..Len(matched) |->
        IF matched[p].shared THEN corpus[matched[p].idx] ELSE matched[p].rec]

(* article['similarity'] = float(similarities[idx]), a write to the dict   *)
(* that article names, and matched_articles.append(article); after the     *)
(* last index the call returns.                                            *)
MatchScore(t) ==
    /\ pc = "idle"
    /\ threads[t].pc = "score"
    /\ LET th == threads[t]
           a == Val(th.article)
           scored == [similarity |-> th.similarities[th.top_indices[th.i]]]
           corpus == IF a.shared /\ a.idx <= Len(law_articles)
                     THEN [law_articles EXCEPT ![a.idx] = scored @@ @]
                     ELSE law_articles
           matched == Append(th.matched,
                             IF a.shared THEN a ELSE [a EXCEPT !.rec = scored @@ @])
       IN /\ law_articles' = corpus
          /\ threads' = [threads EXCEPT ![t] =
                IF th.i = Len(th.top_indices)
                THEN MatchDone(th, TRUE, "", Shown(matched, corpus))
                ELSE [Noticed(th) EXCEPT !.pc = "copy", !.i = @ + 1,
                                         !.matched = matched, !.article = None]]
    /\ UNCHANGED <<build_vars, pinned, ret, exam_vars, repo>>

(* load_law_articles on thread t, up to self.law_articles = []. *)
LoadBegin(t, csv, fail_at) ==
    /\ pc = "idle"
    /\ Free(t)
    /\ ~LoadInProgress
    /\ fail_at \in 0..NumBatches(Len(csv.rows))
    /\ IF ~csv.readable
       THEN /\ threads' = [threads EXCEPT ![t] = [pc |-> "done", op |-> "load",
                                                 ok |-> FALSE]]
            /\ last_load' = "read_csv raised"
            /\ UNCHANGED law_articles
       ELSE /\ threads' = [threads EXCEPT ![t] = [pc |-> "rows", csv |-> csv,
                                                 fail_at |-> fail_at, i |-> 1]]
            /\ law_articles' = <<>>
            /\ UNCHANGED last_load
    /\ pinned' = None
    /\ UNCHANGED <<law_embeddings, built_from, ever_loaded, argsort_ties, ret,
                   exam_vars, repo>>

(* One turn of the row loop: self.law_articles.append(article); a row that *)
(* raises ends the call in the except clause.                              *)
LoadRow(t) ==
    /\ pc = "idle"
    /\ threads[t].pc = "rows"
    /\ LET th == threads[t]
       IN /\ th.i <= Len(th.csv.rows)
          /\ IF RowRaises(th.csv, th.csv.rows[th.i])
             THEN /\ threads' = [threads EXCEPT ![t] = [pc |-> "done", op |-> "load",
                                                       ok |-> FALSE]]
                  /\ last_load' = "row raised"
                  /\ UNCHANGED law_articles
             ELSE /\ threads' = [threads EXCEPT ![t] = [th EXCEPT !.i = @ + 1]]
                  /\ law_articles' = Append(law_articles,
                                            Article(th.csv, th.csv.rows[th.i]))
                  /\ UNCHANGED last_load
    /\ UNCHANGED <<law_embeddings, built_from, ever_loaded, argsort_ties, pinned,
                   ret, exam_vars, repo>>

(* self._build_embeddings(): the provider calls, then the assignment of    *)
(* self.law_embeddings.                                                    *)
LoadBuildIndex(t) ==
    /\ pc = "idle"
    /\ threads[t].pc = "rows"
    /\ LET th == threads[t]
       IN /\ th.i > Len(th.csv.rows)
          /\ \E b \in {build_embeddings(law_articles, th.fail_at)} :
               /\ threads' = [threads EXCEPT ![t] = [pc |-> "done", op |-> "load",
                                                    ok |-> ~b.raised]]
               /\ law_embeddings' = IF b.raised THEN law_embeddings
                                                ELSE Some(b.embeddings)
               /\ built_from' = IF b.raised THEN built_from ELSE law_articles
               /\ ever_loaded' = (ever_loaded \/ ~b.raised)
               /\ last_load' = IF b.raised THEN "provider raised" ELSE "built"
    /\ UNCHANGED <<law_articles, argsort_ties, pinned, ret, exam_vars, repo>>

-----------------------------------------------------------------------------
Init ==
    /\ law_articles = <<>>
    /\ law_embeddings = None
    /\ built_from = <<>>
    /\ ever_loaded = FALSE
    /\ last_load = "none"
    /\ argsort_ties \in TieOrders
    /\ pinned = None
    /\ ret = Returned("init", TRUE, 0)
    /\ pc = "idle"
    /\ run = Idle
    /\ results = Idle
    /\ calls = <<>>
    /\ threads = [t \in Threads |-> Resting]
    /\ repo = DataRepository

Load == \E csv \in CsvFiles, fail_at \in 0..1 : load_law_articles(csv, fail_at)

MatchQuestion ==
    \E q \in QueryTexts, k \in TopKs, f \in BOOLEAN : match_question(q, <<>>, k, f)

MatchOption ==
    \E q \in {<<130>>}, o \in OptionTexts, l \in {LetterA, LetterB}, k \in TopKs,
       f \in BOOLEAN : match_option(q, l, o, <<>>, k, f)

ProcessExam ==
    \/ \E exam \in ExamFiles, output_file \in BOOLEAN : ProcessExamStart(exam, output_file)
    \/ \E f \in BOOLEAN : ProcessQuestion(f)
    \/ \E f \in BOOLEAN : ProcessOption(f)
    \/ ProcessExamFinish

Next == Load \/ MatchQuestion \/ MatchOption \/ ProcessExam

Spec == Init /\ [][Next]_vars

(* The index construction over corpora of several batches. *)
LoadBuild ==
    \E csv \in BuildCsvFiles, fail_at \in 0..NumBatches(BigRows) :
        load_law_articles(csv, fail_at)

MatchBuild ==
    \/ \E k \in {1, 2}, f \in BOOLEAN : match_question(<<130>>, <<>>, k, f)
    \/ \E k \in {1, 2}, f \in BOOLEAN : match_option(<<130>>, LetterA, <<135>>, <<>>, k, f)

NextBuild == LoadBuild \/ MatchBuild

SpecBuild == Init /\ [][NextBuild]_vars

(* The matcher under loads and direct match calls; the queries include     *)
(* texts embedded as the unit vectors <<1, 0>>, <<0, 1>>, <<-1, 0>> and    *)
(* <<0, -1>>, as the zero vector and as <<1, 1>>.                          *)
RankCsvFiles == {CsvA, CsvB, CsvUnit, CsvEmpty, CsvNoColumn}
RankQueryTexts == {<<5>>, <<7>>, <<3>>, <<1>>, <<130>>, <<131, 133>>}

LoadRank == \E csv \in RankCsvFiles, fail_at \in 0..1 : load_law_articles(csv, fail_at)

MatchQuestionRank ==
    \E q \in RankQueryTexts, k \in TopKs, f \in BOOLEAN : match_question(q, <<>>, k, f)

MatchOptionRank ==
    \E q \in {<<130>>, <<7>>}, o \in OptionTexts, l \in {LetterA, LetterB},
       k \in TopKs : match_option(q, l, o, <<>>, k, FALSE)

NextRank == LoadRank \/ MatchQuestionRank \/ MatchOptionRank

SpecRank == Init /\ [][NextRank]_vars

(* The matcher under loads and exam runs; a run that has started goes on:  *)
(* the loops of process_exam_questions wait for nothing but the provider's *)
(* answers, which arrive or fail.                                          *)
ExamStep ==
    \/ ProcessExamFinish
    \/ ProcessQuestion(TRUE) \/ ProcessQuestion(FALSE)
    \/ ProcessOption(TRUE) \/ ProcessOption(FALSE)

NextExam == Load \/ ProcessExam

SpecExam == Init /\ [][NextExam]_vars /\ WF_vars(ExamStep)

SingleCsvFiles == {CsvA, CsvB, CsvUnit, CsvEmpty, CsvNoColumn}

(* Runs of process_single_json, each on a matcher of its own. *)
ProcessSingle ==
    \/ \E qa \in QaFiles, csv \in SingleCsvFiles, fail_at \in 0..1 :
          SingleStart(qa, csv, fail_at)
    \/ \E f \in BOOLEAN : SingleOption(f)
    \/ SingleQuestionEnd
    \/ SingleFinish

NextSingle == ProcessSingle

SpecSingle == Init /\ [][NextSingle]_vars

(* Match calls of several threads on one matcher; loads run only while no *)
(* call is under way.                                                      *)
ConcCsvFiles == {CsvA, CsvUnit}

ThreadBegin ==
    \/ \E t \in Threads, q \in QueryTexts : MatchBegin(t, q, 2, FALSE)
    \/ \E t \in Threads : MatchBegin(t, <<130>>, 1, TRUE)
    \/ \E t \in Threads :
          MatchBegin(t, CombinedText(<<130>>, LetterA, <<135>>), 2, FALSE)

ThreadSteps ==
    \/ \E t \in Threads : MatchCheck(t)
    \/ \E t \in Threads : MatchEmbed(t)
    \/ \E t \in Threads : MatchRank(t)
    \/ \E t \in Threads : MatchCopy(t)
    \/ \E t \in Threads : MatchScore(t)

ThreadMatch == ThreadBegin \/ ThreadSteps

LoadQuiet ==
    /\ \A t \in Threads : Free(t)
    /\ \E csv \in ConcCsvFiles : load_law_articles(csv, 0)

NextConc == LoadQuiet \/ ThreadMatch

SpecConc == Init /\ [][NextConc]_vars

(* Match calls of several threads next to a thread that loads. *)
ReloadCsvFiles == {CsvA, CsvB, CsvStrSub, CsvUnreadable}

ThreadBeginReload ==
    \E t \in Threads, f \in BOOLEAN : MatchBegin(t, <<130>>, 2, f)

ThreadLoad ==
    \/ \E t \in Threads, csv \in ReloadCsvFiles, fail_at \in 0..1 :
          LoadBegin(t, csv, fail_at)
    \/ \E t \in Threads : LoadRow(t)
    \/ \E t \in Threads : LoadBuildIndex(t)

NextReload == ThreadLoad \/ ThreadBeginReload \/ ThreadSteps

SpecReload == Init /\ [][NextReload]_vars

(* A DataRepository under changing files. *)
AccessLaw == \E csv \in RepoCsvFiles : law_articles_get(csv)

AccessExam ==
    \E exam_sets \in RepoExamSets, file \in RepoExamFiles :
        exam_questions_get(exam_sets, file)

LoadExamSet ==
    \E exam_sets \in RepoExamSets, file \in RepoExamFiles :
        load_exam_set(exam_sets, "exam_113", file)

NextRepo == AccessLaw \/ AccessExam \/ LoadExamSet \/ reload_data

SpecRepo == Init /\ [][NextRepo]_vars

(* The two loaders under files with and without empty cells. *)
LoadMatcher ==
    \E csv \in LoaderCsvFiles, fail_at \in 0..1 : load_law_articles(csv, fail_at)

LoadModels == \E csv \in LoaderCsvFiles : load_from_csv(csv)

NextLoad == LoadMatcher \/ LoadModels

SpecLoad == Init /\ [][NextLoad]_vars

(* The matcher under loads and repeated match calls, one earlier           *)
(* match_question call being remembered.                                   *)
Pin ==
    /\ pc = "idle"
    /\ IsNone(pinned)
    /\ ret.op = "match_question"
    /\ ret.status = "return"
    /\ pinned' = Some([call |-> ret, later |-> FALSE, between |-> FALSE])
    /\ UNCHANGED <<index_vars, ret, exam_vars, side_vars>>

LoadRepeat == \E csv \in {CsvA, CsvUnit}, fail_at \in 0..1 : load_law_articles(csv, fail_at)

MatchQuestionRepeat ==
    \E q \in {<<1>>, <<5>>, <<130>>}, k \in {1, 2}, f \in BOOLEAN :
        match_question(q, <<>>, k, f)

MatchOptionRepeat == match_option(<<130>>, LetterA, <<135>>, <<>>, 2, FALSE)

NextRepeat == LoadRepeat \/ MatchQuestionRepeat \/ MatchOptionRepeat \/ Pin

SpecRepeat == Init /\ [][NextRepeat]_vars

-----------------------------------------------------------------------------
(* C1: once some load has succeeded, law_articles has as many records as   *)
(* law_embeddings has rows, and record i is the record vector i was built  *)
(* from, whatever loads (failed ones too) and matches follow.              *)
C1_CorpusAlignedWithIndex ==
    ever_loaded =>
        /\ ~IsNone(law_embeddings)
        /\ Len(law_articles) = Len(Val(law_embeddings))
        /\ law_articles = built_from

(* C2: after a load_law_articles call that returns True, law_embeddings     *)
(* holds exactly one vector per record of law_articles.                     *)
C2_OneVectorPerArticle ==
    (ret.op = "load_law_articles" /\ ret.value = Some(TRUE)) =>
        /\ ~IsNone(law_embeddings)
        /\ Len(Val(law_embeddings)) = Len(law_articles)

(* A load of a corpus of several batches has returned True. *)
C2_Witness ==
    /\ ret.op = "load_law_articles"
    /\ ret.value = Some(TRUE)
    /\ Len(law_articles) > 2 * batch_size
    /\ ret.provider_calls = NumBatches(Len(law_articles))

(* C3: on a matcher on which no build has succeeded, match_question and     *)
(* match_option raise the index-not-built error without a provider call,    *)
(* return no result list, and change nothing of the matcher; the same holds *)
(* of the match calls process_exam_questions issues.                        *)
C3_MatchBeforeBuildFailsFast ==
    /\ [](~ever_loaded =>
            /\ ret.op \in {"match_question", "match_option"} =>
                   /\ ret.status = "raise"
                   /\ ret.error = ErrNotBuilt
                   /\ ret.provider_calls = 0
                   /\ IsNone(ret.value)
            /\ \A i \in 1..Len(calls) :
                   /\ ~calls[i].ok
                   /\ calls[i].error = ErrNotBuilt
                   /\ calls[i].provider_calls = 0)
    /\ [][(~ever_loaded /\ ret'.op \in {"match_question", "match_option"})
              => (law_articles' = law_articles /\ law_embeddings' = law_embeddings)]_vars

(* A match was called after a build that failed at the provider: records    *)
(* are loaded, the index is not.                                            *)
C3_Witness ==
    /\ ~ever_loaded
    /\ ret.op = "match_option"
    /\ last_load = "provider raised"
    /\ Len(law_articles) > 0

(* C4: a load in which the provider call of a batch raises reports failure, *)
(* and every match call that follows it raises the index-not-built error.   *)
C4_FailedBatchLeavesNoIndex ==
    /\ (ret.op = "load_law_articles" /\ last_load = "provider raised")
           => ret.value = Some(FALSE)
    /\ (ret.op \in {"match_question", "match_option"} /\ last_load = "provider raised")
           => (ret.status = "raise" /\ ret.error = ErrNotBuilt)

(* C5: a load_law_articles call that fails leaves law_articles and          *)
(* law_embeddings exactly as they were before the call.                     *)
C5_FailedLoadKeepsNoPartialState ==
    [][(ret'.op = "load_law_articles" /\ ret'.value = Some(FALSE))
           => (law_articles' = law_articles /\ law_embeddings' = law_embeddings)]_vars

-----------------------------------------------------------------------------
(* The units of an exam: one per question and one per option. *)
ExamUnits(mc) ==
    {<<"question", q, 0>> : q \in 1..Len(mc)} \cup
    UNION {{<<"option", q, o>> : o \in 1..Len(DictGet(mc[q], "options", <<>>))} :
              q \in 1..Len(mc)}

(* process_exam_questions has returned its report. *)
Completed == ret.op = "process_exam_questions" /\ ret.status = "return"

HasQuestionEntry(report, question) ==
    \E j \in 1..Len(report.question_matches) :
        report.question_matches[j].question_id = PyStr(question.question_number)

HasOptionEntry(report, question, o) ==
    \E j \in 1..Len(report.option_matches) :
        /\ report.option_matches[j].question_id = PyStr(question.question_number)
        /\ report.option_matches[j].option_letter = question.options[o][1]

(* C6: in the report process_exam_questions returns, a unit whose match     *)
(* call failed has no entry, a match call was issued for every question and *)
(* option of the exam, and every unit whose call succeeded has its entry.   *)
C6_FailedUnitSkippedOthersKept ==
    Completed =>
        LET report == Val(ret.value)
            mc == McQuestions(report.metadata.source_file.data)
            log == ret.calls
        IN /\ {<<log[i].kind, log[i].q, log[i].o>> : i \in 1..Len(log)} = ExamUnits(mc)
           /\ \A i \in 1..Len(log) :
                  IF log[i].kind = "question"
                  THEN log[i].ok <=> HasQuestionEntry(report, mc[log[i].q])
                  ELSE log[i].ok <=> HasOptionEntry(report, mc[log[i].q], log[i].o)

(* A report was returned by a run in which the provider failed on one unit  *)
(* and a later question and a later option succeeded.                       *)
C6_Witness ==
    /\ Completed
    /\ \E i, j, k \in 1..Len(ret.calls) :
           /\ i < j /\ i < k
           /\ ~ret.calls[i].ok /\ ret.calls[i].error = ErrProvider
           /\ ret.calls[j].ok /\ ret.calls[j].kind = "question"
           /\ ret.calls[k].ok /\ ret.calls[k].kind = "option"

(* C7: the statistics of the returned report carry a failure count, equal   *)
(* to the number of match calls of the run that failed.                     *)
C7_ReportCountsFailures ==
    Completed =>
        LET statistics == Val(ret.value).statistics
        IN /\ "failures" \in DOMAIN statistics
           /\ statistics.failures =
                  Cardinality({i \in 1..Len(ret.calls) : ~ret.calls[i].ok})

Succeeded(log, kind) == Cardinality({i \in 1..Len(log) : log[i].kind = kind /\ log[i].ok})

CountsAgree(res, log) ==
    /\ res.statistics.questions_processed = Len(res.question_matches)
    /\ res.statistics.options_processed = Len(res.option_matches)
    /\ Len(res.question_matches) = Succeeded(log, "question")
    /\ Len(res.option_matches) = Succeeded(log, "option")

(* C8: throughout a run and in the returned report, questions_processed and *)
(* options_processed equal the lengths of question_matches and              *)
(* option_matches and the numbers of match calls that succeeded.            *)
C8_ProcessedCountsAreSuccesses ==
    /\ pc # "idle" => CountsAgree(results, calls)
    /\ Completed => CountsAgree(Val(ret.value), ret.calls)

(* A run is under way in which a match call failed and an option succeeded. *)
C8_Witness ==
    /\ pc = "option"
    /\ results.statistics.options_processed > 0
    /\ \E i \in 1..Len(calls) : ~calls[i].ok

(* C9: process_exam_questions on a matcher on which no build has succeeded  *)
(* raises; it returns no report of a run whose match calls all had no       *)
(* index to search.                                                         *)
C9_RunWithoutIndexRaises ==
    (Completed /\ Len(ret.calls) > 0) => ever_loaded

(* C10: once the exam file is read, no error of one question ends the run:  *)
(* process_exam_questions raises only when the file cannot be read.         *)
C10_QuestionErrorsIsolated ==
    (ret.op = "process_exam_questions" /\ ret.status = "raise") => ret.error = "OSError"

-----------------------------------------------------------------------------
(* The last completed call is a direct match call. *)
IsMatch(r) == r.op \in {"match_question", "match_option"}

(* The candidates a returned match call lists. *)
Matched(r) == Val(r.value).matched_articles

(* The index is built, and built from the corpus the matcher holds. *)
IndexBuilt == ~IsNone(law_embeddings) /\ law_articles = built_from

(* The similarities of a candidate list never increase down the list. *)
NonIncreasing(m) ==
    \A p \in 1..(Len(m) - 1) : m[p].similarity >= m[p + 1].similarity

(* C11: on a built index of N >= 1 articles, a match_question or           *)
(* match_option call with top_k = k >= 1 whose provider call succeeds      *)
(* returns, without error, exactly min(k, N) matched articles: all N when  *)
(* k exceeds N, ranked by similarity.                                     *)
C11_ReturnsMinOfTopKAndCorpus ==
    (/\ IsMatch(ret)
     /\ IndexBuilt
     /\ Len(law_articles) >= 1
     /\ Val(ret.args).top_k >= 1
     /\ ret.error # ErrProvider)
    => /\ ret.status = "return"
       /\ Len(Matched(ret)) = Min(Val(ret.args).top_k, Len(law_articles))
       /\ NonIncreasing(Matched(ret))

C11_Witness ==
    /\ IsMatch(ret)
    /\ IndexBuilt
    /\ ret.status = "return"
    /\ Len(law_articles) >= 1
    /\ Val(ret.args).top_k > Len(law_articles)
    /\ Len(Matched(ret)) = Len(law_articles)

(* C12: a match_question or match_option call with top_k <= 0 is rejected  *)
(* and returns no result list, so a call that returns was given top_k >= 1 *)
(* and lists at most top_k candidates.                                     *)
C12_NonPositiveTopKRejected ==
    (IsMatch(ret) /\ ret.status = "return")
    => /\ Val(ret.args).top_k >= 1
       /\ Len(Matched(ret)) <= Val(ret.args).top_k

(* The position in the corpus of the record a candidate is a copy of. *)
CorpusIndex(m) ==
    CHOOSE i \in 1..Len(law_articles) :
        ([similarity |-> m.similarity] @@ law_articles[i]) = m

(* C13: the matched_articles list of every match_question and match_option *)
(* result is in non-increasing similarity, and candidates of equal         *)
(* similarity are in ascending order of their corpus index.                *)
C13_RankedWithTiesByCorpusIndex ==
    (IsMatch(ret) /\ ret.status = "return")
    => /\ NonIncreasing(Matched(ret))
       /\ \A p \in 1..(Len(Matched(ret)) - 1) :
             Matched(ret)[p].similarity = Matched(ret)[p + 1].similarity
             => CorpusIndex(Matched(ret)[p]) < CorpusIndex(Matched(ret)[p + 1])

(* The score of index row i for the text a match call embedded. *)
Score(r, i) == Dot(EmbedText(Val(r.args).text), Val(law_embeddings)[i])

(* C14: for top_k >= 1 the candidates a match returns are the top_k most   *)
(* similar rows of the index: they are copies of distinct corpus records   *)
(* idx, each carrying the score of index row idx, as many as top_k allows, *)
(* and no row left out scores strictly more than a returned one.           *)
C14_ReturnsTopKBySimilarity ==
    (IsMatch(ret) /\ ret.status = "return" /\ Val(ret.args).top_k >= 1)
    => LET m == Matched(ret)
           n == Len(Val(law_embeddings))
       IN /\ Len(m) = Min(Val(ret.args).top_k, n)
          /\ \E idx \in [1..Len(m) -> 1..n] :
                /\ \A p, r \in 1..Len(m) : idx[p] = idx[r] => p = r
                /\ \A p \in 1..Len(m) :
                      /\ idx[p] <= Len(law_articles)
                      /\ m[p] = ([similarity |-> Score(ret, idx[p])]
                                     @@ law_articles[idx[p]])
                /\ \A j \in 1..n :
                      (\A p \in 1..Len(m) : idx[p] # j)
                      => \A p \in 1..Len(m) : Score(ret, j) <= m[p].similarity

C14_Witness ==
    /\ IsMatch(ret)
    /\ ret.status = "return"
    /\ Val(ret.args).top_k >= 1
    /\ Len(Matched(ret)) < Len(Val(law_embeddings))
    /\ \E j \in 1..Len(Val(law_embeddings)) :
          \A p \in 1..Len(Matched(ret)) : Score(ret, j) < Matched(ret)[p].similarity

(* The corpus is indexed by pairwise distinct unit vectors. *)
UnitCorpus ==
    /\ IndexBuilt
    /\ Len(law_articles) >= 1
    /\ \A i \in 1..Len(law_articles) :
          Dot(Val(law_embeddings)[i], Val(law_embeddings)[i]) = 1
    /\ \A i, j \in 1..Len(law_articles) :
          Val(law_embeddings)[i] = Val(law_embeddings)[j] => i = j

(* C15: on a corpus whose articles have pairwise distinct unit vectors, a  *)
(* match with top_k >= 1 for a query whose vector is the vector of article *)
(* i returns article i as its first candidate, with similarity 1.          *)
C15_IdenticalVectorRanksFirst ==
    (IsMatch(ret) /\ ret.status = "return" /\ Val(ret.args).top_k >= 1 /\ UnitCorpus)
    => \A i \in 1..Len(law_articles) :
          EmbedText(Val(ret.args).text) = Val(law_embeddings)[i]
          => Matched(ret)[1] = ([similarity |-> 1] @@ law_articles[i])

C15_Witness ==
    /\ ret.op = "match_question"
    /\ ret.status = "return"
    /\ Val(ret.args).top_k >= 2
    /\ UnitCorpus
    /\ Len(law_articles) = 3
    /\ EmbedText(Val(ret.args).text) = Val(law_embeddings)[2]
    /\ Matched(ret)[1] = ([similarity |-> 1] @@ law_articles[2])

C17_SimilarityIsCosine ==
    (IsMatch(ret) /\ ret.status = "return")
    => \A p \in 1..Len(Matched(ret)) :
          /\ Matched(ret)[p].similarity >= -1
          /\ Matched(ret)[p].similarity <= 1

(* The texts of a list of batches, one after the other. *)
RECURSIVE Flatten(_)
Flatten(batches) ==
    IF batches = <<>> THEN <<>> ELSE Head(batches) \o Flatten(Tail(batches))

(* C18: a load that builds the index of N records submitted their texts to *)
(* the provider in ceil(N/100) batches of at most 100 texts, which put end *)
(* to end are the corpus texts in corpus order (none skipped, none sent    *)
(* twice), and vector i of the index is the embedding of record i.         *)
C18_BatchesInOrderVectorPerRecord ==
    (ret.op = "load_law_articles" /\ Val(ret.value))
    => LET n == Len(law_articles)
           law_texts == [i \in 1..n |-> ArticleText(law_articles[i])]
       IN /\ Len(ret.calls) * batch_size >= n
          /\ (Len(ret.calls) - 1) * batch_size < n
          /\ \A b \in 1..Len(ret.calls) : Len(ret.calls[b]) <= batch_size
          /\ Flatten(ret.calls) = law_texts
          /\ Len(Val(law_embeddings)) = n
          /\ \A i \in 1..n : Val(law_embeddings)[i] = EmbedText(law_texts[i])

C18_Witness ==
    /\ ret.op = "load_law_articles"
    /\ Val(ret.value)
    /\ Len(law_articles) = 2 * batch_size + 1
    /\ Len(ret.calls) = 3
    /\ Len(ret.calls[3]) = 1
    /\ Val(law_embeddings)[1] # Val(law_embeddings)[batch_size + 1]

(* Every question record carries its number and its content. *)
WellFormed(mc) == \A i \in 1..Len(mc) : ~QuestionRaises(mc[i])

(* The match calls an exam asks for: per question, in exam order, the      *)
(* question and then its options in option order.                          *)
RECURSIVE ExpectedCalls(_, _)
ExpectedCalls(mc, i) ==
    IF i > Len(mc) THEN <<>>
    ELSE <<<<"question", i, 0>>>>
         \o [o \in 1..Len(DictGet(mc[i], "options", <<>>)) |-> <<"option", i, o>>]
         \o ExpectedCalls(mc, i + 1)

(* The units a log of calls names, in the order of the calls. *)
Issued(log) == [i \in 1..Len(log) |-> <<log[i].kind, log[i].q, log[i].o>>]

IsPrefix(a, b) == Len(a) <= Len(b) /\ a = SubSeq(b, 1, Len(a))

(* The calls of the running exam are the first of the calls it asks for. *)
CallsInOrder ==
    (pc # "idle" /\ WellFormed(run.mc_questions))
    => IsPrefix(Issued(calls), ExpectedCalls(run.mc_questions, 1))

(* The calls of a returned run are exactly the calls its exam asks for. *)
CallsComplete ==
    (ret.op = "process_exam_questions" /\ ret.status = "return")
    => Issued(ret.calls)
         = ExpectedCalls(McQuestions(Val(ret.value).metadata.source_file.data), 1)

(* C19: for an exam whose question records carry number and content,       *)
(* process_exam_questions issues, per question in exam order, one question *)
(* match call and then one option match call per option in option order,   *)
(* Q plus the number of options in all, none repeated and none skipped     *)
(* whether or not earlier calls failed; and the run then terminates.       *)
C19_OneCallPerUnitInOrderThenEnds ==
    /\ [](CallsInOrder /\ CallsComplete)
    /\ (pc # "idle" /\ WellFormed(run.mc_questions))
          ~> (pc = "idle" /\ ret.op = "process_exam_questions"
                         /\ ret.status = "return")

C19_Witness ==
    /\ ret.op = "process_exam_questions"
    /\ ret.status = "return"
    /\ Len(ret.calls) = 6
    /\ \E i, j \in 1..Len(ret.calls) :
          /\ i < j
          /\ ~ret.calls[i].ok
          /\ ret.calls[j].ok

(* C20: in the report process_exam_questions returns, no option result     *)
(* appears without a result for its own question: for every entry of       *)
(* option_matches there is an entry of question_matches with the same      *)
(* question_id.                                                            *)
C20_OptionResultsBelongToQuestionResults ==
    Completed
    => LET report == Val(ret.value)
       IN \A o \in 1..Len(report.option_matches) :
             \E q \in 1..Len(report.question_matches) :
                report.question_matches[q].question_id
                    = report.option_matches[o].question_id

-----------------------------------------------------------------------------
(* C21: the corpus and the index of a matcher are built once and read-only *)
(* afterward: once a load_law_articles call has succeeded, no later        *)
(* operation on the matcher, a further load_law_articles call included,    *)
(* changes law_articles or law_embeddings.                                 *)
C21_BuiltOnceThenReadOnly ==
    [][ever_loaded
       => (law_articles' = law_articles /\ law_embeddings' = law_embeddings)]_vars

(* A step that is, or contains, a match_question or match_option call: a   *)
(* direct call, or a call of a running process_exam_questions.             *)
MatchStep == (ret' # ret /\ IsMatch(ret')) \/ Len(calls') > Len(calls)

(* No corpus record has a similarity field. *)
NoSimilarityInCorpus ==
    \A i \in 1..Len(law_articles) : "similarity" \notin DOMAIN law_articles[i]

(* C22: match_question and match_option never change shared state: a      *)
(* match call, succeeding or failing, leaves law_articles (the list and    *)
(* every field of every record) and law_embeddings as they were, and no    *)
(* corpus record ever has a similarity field: the similarity is written to *)
(* the per-result copy only.                                               *)
C22_MatchLeavesCorpusAndIndex ==
    /\ []NoSimilarityInCorpus
    /\ [][MatchStep => (law_articles' = law_articles
                        /\ law_embeddings' = law_embeddings)]_vars

C22_Witness ==
    /\ IsMatch(ret)
    /\ ret.status = "return"
    /\ Len(Matched(ret)) >= 2
    /\ \A p \in 1..Len(Matched(ret)) : "similarity" \in DOMAIN Matched(ret)[p]
    /\ NoSimilarityInCorpus

(* C29: when the latest load_law_articles call has returned True, a        *)
(* match_question or match_option call with top_k >= 1 fails only when its *)
(* provider call fails; after a load of a corpus of zero rows it returns   *)
(* an empty candidate list.                                                *)
C29_MatchAfterLoadFailsOnlyOnProvider ==
    (IsMatch(ret) /\ last_load = "built" /\ Val(ret.args).top_k >= 1)
    => /\ ret.status = "raise" => ret.error = ErrProvider
       /\ (ret.status = "return" /\ Len(law_articles) = 0) => Matched(ret) = <<>>

-----------------------------------------------------------------------------
(* The cell holds a number. *)
IsNumber(cell) == cell.t \in {"int", "float"}

(* The LawArticle of the law code, main number and sub-number of a record  *)
(* of the matcher's corpus.                                                *)
AsLawArticle(a) ==
    [law_code |-> Fmt(a.law_code),
     article_no_main |-> PyInt(a.article_no_main),
     article_no_sub |-> PyInt(a.article_no_sub)]

(* C25: the identifier of every loaded article whose law code, main number *)
(* and sub-number are present is law_code-main_no when the sub-number is 0 *)
(* and law_code-main_no-sub_no when it is greater than 0, which is also    *)
(* LawArticle.article_id for the same law code, main number and sub-number.*)
C25_ArticleIdFormat ==
    \A i \in 1..Len(law_articles) :
        LET a == law_articles[i]
        IN (a.law_code.t = "str" /\ IsNumber(a.article_no_main)
                                /\ IsNumber(a.article_no_sub))
           => /\ a.id = IF a.article_no_sub.v > 0
                        THEN <<a.law_code.v, a.article_no_main.v, a.article_no_sub.v>>
                        ELSE <<a.law_code.v, a.article_no_main.v>>
              /\ a.id = article_id(AsLawArticle(a))

(* The file of the load call that completed last. *)
LoadedCsv == Val(ret.args).csv

(* Some row of the file lacks its law code, its main number or its content. *)
MissingRequired(csv) ==
    /\ csv.readable
    /\ \/ ~({"law_code", "article_no_main", "content"} \subseteq csv.columns)
       \/ \E i \in 1..Len(csv.rows) :
             \/ csv.rows[i].law_code.t = "nan"
             \/ csv.rows[i].article_no_main.t = "nan"
             \/ csv.rows[i].content.t = "nan"

(* C26: a load from a file in which a row lacks a required field (law      *)
(* code, main number, content) fails as a whole and produces no corpus:    *)
(* load_law_articles returns False and holds no record, load_from_csv      *)
(* raises; and a load that succeeds yields one record per row of the file. *)
C26_MissingFieldFailsWholeLoad ==
    /\ (ret.op = "load_law_articles" /\ MissingRequired(LoadedCsv))
       => (~Val(ret.value) /\ law_articles = <<>>)
    /\ (ret.op = "load_from_csv" /\ MissingRequired(LoadedCsv))
       => ret.status = "raise"
    /\ (ret.op = "load_law_articles" /\ Val(ret.value))
       => Len(law_articles) = Len(LoadedCsv.rows)
    /\ (ret.op = "load_from_csv" /\ ret.status = "return")
       => Len(Val(ret.value)) = Len(LoadedCsv.rows)

(* The file has every column and every cell but the sub-number of some row. *)
OnlySubNumberMissing(csv) ==
    /\ csv.readable
    /\ AllColumns \subseteq csv.columns
    /\ ~MissingRequired(csv)
    /\ \A i \in 1..Len(csv.rows) :
          /\ IsNumber(csv.rows[i].article_no_main)
          /\ csv.rows[i].article_no_sub.t \in {"int", "float", "nan"}
    /\ \E i \in 1..Len(csv.rows) : csv.rows[i].article_no_sub.t = "nan"

(* C27: a row that supplies law code, main number and content but no       *)
(* sub-number loads, with its sub-number taken as zero and an identifier   *)
(* without sub-number suffix, in load_law_articles (the provider           *)
(* answering) and in load_from_csv alike.                                  *)
C27_SubNumberDefaultsToZero ==
    /\ (ret.op = "load_law_articles" /\ OnlySubNumberMissing(LoadedCsv)
                                      /\ last_load # "provider raised")
       => /\ Val(ret.value)
          /\ Len(law_articles) = Len(LoadedCsv.rows)
          /\ \A i \in 1..Len(law_articles) :
                LoadedCsv.rows[i].article_no_sub.t = "nan"
                => /\ Len(law_articles[i].id) = 2
                   /\ IsNumber(law_articles[i].article_no_sub)
                   /\ law_articles[i].article_no_sub.v = 0
    /\ (ret.op = "load_from_csv" /\ OnlySubNumberMissing(LoadedCsv))
       => /\ ret.status = "return"
          /\ \A i \in 1..Len(Val(ret.value)) :
                LoadedCsv.rows[i].article_no_sub.t = "nan"
                => /\ Val(ret.value)[i].article_no_sub = 0
                   /\ Len(article_id(Val(ret.value)[i])) = 2

-----------------------------------------------------------------------------
(* The report of a process_single_json run has the entry of option o of    *)
(* question q.                                                             *)
SingleHasEntry(report, q, o) ==
    \E e \in 1..Len(report.question_matches) :
        /\ report.question_matches[e].question_number = q
        /\ \E x \in 1..Len(report.question_matches[e].options) :
              report.question_matches[e].options[x].option_letter = OptionLetter(o - 1)

(* C28: in process_single_json a provider error on the match call of one   *)
(* option does not discard what was computed for the other options and     *)
(* questions: the run still writes its report, and the report contains     *)
(* every option whose match succeeded.                                     *)
C28_SingleRunKeepsComputedResults ==
    (/\ ret.op = "process_single_json"
     /\ ret.status # "running"
     /\ \E c \in 1..Len(ret.calls) : ret.calls[c].error = ErrProvider)
    => /\ ~IsNone(ret.written)
       /\ \A c \in 1..Len(ret.calls) :
             ret.calls[c].ok
             => SingleHasEntry(Val(ret.written), ret.calls[c].q, ret.calls[c].o)

-----------------------------------------------------------------------------
(* What an access of a repository property does to its cache, given the    *)
(* cache and the load count before and after, and the outcome.             *)
CachedAccess(before, after, loads, loads_after, outcome) ==
    IF ~IsNone(before)
    THEN /\ outcome.status = "return"
         /\ outcome.value = before
         /\ after = before
         /\ loads_after = loads
    ELSE /\ outcome.status = "raise" => IsNone(after)
         /\ outcome.status = "return" => after = outcome.value

(* C30: DataRepository caches each data set.  Between two reload_data      *)
(* calls, once a load of the law articles (of the exam questions) has      *)
(* succeeded, later accesses load nothing and return the cached list;      *)
(* reload_data empties both caches, and the next access of each loads      *)
(* again; an access whose load raises leaves the cache empty, and the      *)
(* access after it loads again.                                            *)
C30_RepositoryCachesUntilReload ==
    [][/\ repo.law_loaded <=> ~IsNone(repo._law_articles)
       /\ repo.exam_loaded <=> ~IsNone(repo._exam_questions)
       /\ ret'.op = "law_articles"
          => /\ CachedAccess(repo._law_articles, repo'._law_articles,
                             repo.law_loads, repo'.law_loads, ret')
             /\ IsNone(repo._law_articles) => repo'.law_loads = Count(repo.law_loads)
             /\ repo'._exam_questions = repo._exam_questions
       /\ ret'.op = "exam_questions"
          => /\ CachedAccess(repo._exam_questions, repo'._exam_questions,
                             repo.exam_loads, repo'.exam_loads, ret')
             /\ (IsNone(repo._exam_questions) /\ Val(ret'.args).exam_sets # NoExamSets)
                => repo'.exam_loads = Count(repo.exam_loads)
             /\ repo'._law_articles = repo._law_articles
       /\ ret'.op = "reload_data"
          => /\ IsNone(repo'._law_articles) /\ IsNone(repo'._exam_questions)
             /\ repo'.law_loads = 0 /\ repo'.exam_loads = 0
       /\ ret'.op = "load_exam_set" => repo' = repo]_vars

(* Both lists are cached from one load each, and an access made while the  *)
(* law file cannot be read has returned the cached law articles.           *)
C30_Witness ==
    /\ ret.op = "law_articles"
    /\ ret.status = "return"
    /\ ret.args = LoadArgs(CsvUnreadable)
    /\ Len(Val(ret.value)) > 0
    /\ repo.law_loads = 1
    /\ repo.exam_loads = 2
    /\ ~IsNone(repo._exam_questions)

-----------------------------------------------------------------------------
(* Thread t has finished a match call. *)
MatchFinished(t) == threads[t].pc = "done" /\ threads[t].op = "match"

(* C23: match_question and match_option calls that run side by side on a   *)
(* built index need no coordination: under every interleaving of their     *)
(* steps each call ends as it ends when it runs alone, with the same       *)
(* result or the same error.                                               *)
C23_ConcurrentMatchesAsAlone ==
    \A t \in Threads :
        MatchFinished(t)
        => /\ threads[t].ok = threads[t].alone.ok
           /\ threads[t].error = threads[t].alone.error
           /\ threads[t].matched_articles = threads[t].alone.matched_articles

(* One thread has returned a list of two records while another thread is   *)
(* inside its result loop for another text.                                *)
C23_Witness ==
    \E t, u \in Threads :
        /\ MatchFinished(t)
        /\ threads[t].ok
        /\ Len(threads[t].matched_articles) = 2
        /\ threads[u].pc = "score"
        /\ threads[u].i = 2
        /\ threads[u].text # threads[t].text

(* A matched record without the similarity the match added to it. *)
Bare(article) == [k \in DOMAIN article \ {"similarity"} |-> article[k]]

(* The records a finished match returned are, rank by rank, the records    *)
(* the index it ranked with was built from.                                *)
FromOneBuild(th) ==
    /\ Len(th.matched_articles) = Len(th.top_indices)
    /\ \A p \in 1..Len(th.top_indices) :
          Bare(th.matched_articles[p]) = th.index_from[th.top_indices[p]]

(* C24: index construction is single-writer/no-readers: a match call that  *)
(* runs while a load_law_articles call is in progress either raises the    *)
(* index-not-built error or uses a corpus and an index of one and the same *)
(* completed build; it never ranks the vectors of one build against the    *)
(* records of another or against a partly filled record list.  (A call     *)
(* whose provider request fails has used neither.)                         *)
C24_MatchDuringLoadUsesOneBuild ==
    \A t \in Threads :
        (MatchFinished(t) /\ threads[t].during_load)
        => \/ threads[t].error = ErrNotBuilt
           \/ threads[t].error = ErrProvider
           \/ threads[t].ok /\ FromOneBuild(threads[t])

====
